---- MODULE Spec2Model ----
(***************************************************************************)
(* ax-get: fetches a versioned Axelor distribution (source tree or WAR)    *)
(* and assembles it under an output directory.                             *)
(*                                                                         *)
(* The model follows src/ax_get/tmp_name.py (the temporary-name registry), *)
(* src/ax_get/smartzip.py (SmartZip.extractall) and src/ax_get/script.py   *)
(* (prep, action_src, action_war).  It describes a run on a POSIX          *)
(* platform: os.name == "posix", os.path.sep == "/", and os.rename with    *)
(* the semantics of rename(2).                                             *)
(*                                                                         *)
(* A directory is a function from entry names to nodes; a node is a        *)
(* regular file with a content tag or a directory with its entries.        *)
(***************************************************************************)
EXTENDS Integers, Sequences, FiniteSets, TLC

VARIABLES
    \* the run of script.start()
    pc,                 \* the statement the run is at; "done", "failed" at its end
    is_src,             \* parser_dict["src"]
    out_arg,            \* parser_dict["out"]: "stable" or "relative"
    cwd,                \* "start", or "D" once prep has changed directory
    fs,                 \* entries of the destination root D
    fs0,                \* entries of D when the run started
    dstate,             \* what prep found at output_dir
    tomcat,             \* what get_tomcat_info() reported, once it is used
    is_root,            \* make_root() has succeeded
    escalations,        \* the make_root() calls made: where, and the result
    chownable,          \* script.chownable
    use_brand_file,     \* script.use_brand_file
    brand,              \* how brand_file was given and what is at that path
    loc,                \* the temporary names held in local variables
    requests,           \* the requests.get calls made, in order
    dl,                 \* the archive each response carried
    err,                \* how the run ended, if it failed
    warnings,           \* the warnings printed
    chown_calls,        \* each chown_r call: the directory its path is in, and
                        \* the tree it found at that path in D
    brand_copies,       \* shutil.copyfile calls made
    advised,            \* output_info printed the logo paragraph
    \* SmartZip.extractall on its own
    zpc,                \* "start", "done" (returned), "raised"
    zarchive,           \* the archive handed to SmartZip
    zdest,              \* entries of the directory extractall was given as path
    \* the allocator on its own
    apc,                \* "fresh" (before init), "ready"
    adir,               \* names listed in the directory given to tmp_name.init
    \* tmp_name
    tmp_name_tracker,   \* tmp_name.tmp_name_tracker
    minted,             \* the names get() has returned, in order
    tmp_made,           \* files NamedTemporaryFile has created in the system
                        \* temporary directory
    tmp_left            \* those of them that are still there

zvars == <<zpc, zarchive, zdest>>
avars == <<apc, adir>>
tvars == <<tmp_name_tracker, minted, tmp_made, tmp_left>>
args == <<is_src, out_arg, fs0>>
privs == <<tomcat, is_root, escalations, chownable>>
brands == <<use_brand_file, brand>>
net == <<requests, dl>>
outs == <<warnings, chown_calls, brand_copies, advised>>
pvars == <<pc, args, cwd, fs, dstate, privs, brands, loc, net, err, outs>>
vars == <<pvars, zvars, avars, tvars>>

----------------------------------------------------------------------------
(* Bounds *)

\* most children a directory of a generated archive holds
MaxKids == 2
\* most entries at the top level of a generated archive
MaxTop == 2
\* most names the directory given to tmp_name.init holds, allocator on its own
MaxListed == 2
\* most entries of D, before the run, that are named like temporary names
MaxPre == 1
\* most get() calls of one allocator run
MaxGets == 3

----------------------------------------------------------------------------
(* Files, directories and os.rename *)

File(c) == [k |-> "file", c |-> c]
Dir(e) == [k |-> "dir", e |-> e]
NoEntries == <<>>

Put(e, n, v) == [x \in DOMAIN e \cup {n} |-> IF x = n THEN v ELSE e[x]]
Without(e, n) == [x \in DOMAIN e \ {n} |-> e[x]]

IsEmptyDir(node) == node.k = "dir" /\ DOMAIN node.e = {}

RenameAlways(src, e, dst) == TRUE
\* rename(2): a file replaces a file, a directory replaces an empty directory,
\* anything may take a free name; every other combination is an error.
RenameAllowed(src, e, dst) ==
    \/ dst \notin DOMAIN e
    \/ src.k = "file" /\ e[dst].k = "file"
    \/ src.k = "dir" /\ IsEmptyDir(e[dst])

Perms(S) ==
    {s \in [1..Cardinality(S) -> S] : {s[i] : i \in 1..Cardinality(S)} = S}

----------------------------------------------------------------------------
(* src/ax_get/smartzip.py *)

\* An archive: top is the tree its member names describe, dirent the depth-one
\* names that have a directory entry of their own ("W/") in infolist();
\* ok is FALSE for a file zipfile.ZipFile rejects.
Archive(top, dirent) == [ok |-> TRUE, top |-> top, dirent |-> dirent]
BadZip == [ok |-> FALSE, top |-> NoEntries, dirent |-> {}]

\* the loop over infolist(): directory entries whose name holds one separator
ParentDirs(a, remove_parent) == IF remove_parent THEN a.dirent ELSE {}

ShouldStripAny(parent_dirs) == Cardinality(parent_dirs) >= 1
\* len(parent_dirs) == 1
ShouldStrip(parent_dirs) == Cardinality(parent_dirs) = 1

\* The rename loop and the final rmdir.  e: entries of path, w: parentname,
\* order: what os.listdir(folder_loc) returned and is still to be moved.
RECURSIVE Flatten(_, _, _)
Flatten(e, w, order) ==
    IF order = <<>>
    THEN IF IsEmptyDir(e[w])
         THEN [ok |-> TRUE, e |-> Without(e, w)]
         ELSE [ok |-> FALSE, e |-> e]
    ELSE LET c == Head(order)
             node == e[w].e[c]
         IN  IF RenameAllowed(node, e, c)
             THEN Flatten(Put(Put(e, w, Dir(Without(e[w].e, c))), c, node),
                          w, Tail(order))
             ELSE [ok |-> FALSE, e |-> e]

\* zipfile.ZipFile.extractall into path, whose present state is cur: Absent, a
\* regular file or a directory without entries (every caller passes a name that
\* was just minted or a directory it just created).  Members are written below
\* path, which is created with the first of them; an archive without members
\* writes nothing; a regular file in the place of path makes the first write
\* raise.
Absent == [k |-> "absent"]
SuperExtractAll(cur, a) ==
    IF DOMAIN a.top = {} THEN [ok |-> TRUE, node |-> cur]
    ELSE IF cur.k = "file" THEN [ok |-> FALSE, node |-> cur]
    ELSE [ok |-> TRUE, node |-> Dir(a.top)]

\* SmartZip.extractall(path, remove_parent=...), order being the listing of the
\* wrapper directory.  The result: ok (returned without raising) and the node at
\* path afterwards.
ExtractAll(cur, a, remove_parent, order) ==
    LET parent_dirs == ParentDirs(a, remove_parent)
        ex == SuperExtractAll(cur, a)
    IN  IF ~ex.ok THEN ex
        ELSE IF ShouldStrip(parent_dirs)
        THEN LET w == CHOOSE n \in parent_dirs : TRUE
                 r == Flatten(ex.node.e, w, order)
             IN  [ok |-> r.ok, node |-> Dir(r.e)]
        ELSE ex

\* the listings os.listdir(folder_loc) may return for archive a
Listings(a, remove_parent) ==
    LET parent_dirs == ParentDirs(a, remove_parent)
    IN  IF Cardinality(parent_dirs) >= 1 /\ DOMAIN a.top # {}
        THEN LET w == CHOOSE n \in parent_dirs : TRUE
             IN  Perms(DOMAIN a.top[w].e)
        ELSE {<<>>}

----------------------------------------------------------------------------
(* Generated archives *)

\* The names overlap, so that a child may be named like a top-level entry and,
\* with more names, like its own wrapper.
NamePool == <<"w", "a", "b", "c">>
KidPool == <<"a", "b", "w", "c">>
TopNames == {NamePool[i] : i \in 1..MaxTop}
KidNames == {KidPool[i] : i \in 1..MaxKids}

KidNodes == {File("kid"), Dir(NoEntries)}
KidTrees == UNION {[S -> KidNodes] : S \in SUBSET KidNames}
TopNodes == {File("top")} \cup {Dir(t) : t \in KidTrees}
DirsOf(t) == {n \in DOMAIN t : t[n].k = "dir"}
\* a directory without members is in the archive only as a directory entry
EmptyDirsOf(t) == {n \in DOMAIN t : IsEmptyDir(t[n])}
\* a is one of the generated archives: any tree over the names, any choice of
\* the top-level directories that have a directory entry
IsGenerated(a) ==
    \E S \in SUBSET TopNames : \E t \in [S -> TopNodes] :
        \E d \in SUBSET DirsOf(t) :
            EmptyDirsOf(t) \subseteq d /\ a = Archive(t, d)

----------------------------------------------------------------------------
(* src/ax_get/tmp_name.py *)

TmpSeq == <<"t1", "t2", "t3", "t4", "t5", "t6", "t7", "t8", "t9">>
TmpPool == {TmpSeq[i] : i \in 1..Len(TmpSeq)}

NameTakenNever(name) == FALSE
\* tmp_name in tmp_name_tracker
NameTaken(name) == name \in tmp_name_tracker

\* tmp_name.init(target_dir): the registry is extended by the listing
TmpInit(listing) ==
    /\ tmp_name_tracker' = tmp_name_tracker \cup listing
    /\ UNCHANGED <<tmp_made, tmp_left>>

ReserveAlone(name) == {name}
\* tmp_name_tracker.append(tmp_name)
Reserve(name) == tmp_name_tracker \cup {name}

TmpGetLeaving(name) ==
    /\ name \in TmpPool
    /\ ~NameTaken(name)
    /\ tmp_made' = tmp_made + 1
    /\ tmp_left' = tmp_left \cup {name}
    /\ tmp_name_tracker' = Reserve(name)

\* tmp_name.get(): NamedTemporaryFile creates a file in the system temporary
\* directory, whose basename is the proposal, and the end of the with block
\* deletes it; a taken proposal makes get() call itself again (each such call
\* creating and deleting one more file), and the first free one is recorded
\* and returned as name.
TmpGet(name) ==
    /\ name \in TmpPool
    /\ ~NameTaken(name)
    /\ tmp_made' = tmp_made + 1
    /\ tmp_left' = tmp_left
    /\ tmp_name_tracker' = Reserve(name)

----------------------------------------------------------------------------
(* The three specifications share the variables; each pins the parts it does
   not use *)

ZipOff == zpc = "off" /\ zarchive = BadZip /\ zdest = NoEntries

AllocOff == apc = "off" /\ adir = {}

PipeOff ==
    /\ pc = "off" /\ is_src = FALSE /\ out_arg = "stable" /\ cwd = "start"
    /\ fs = NoEntries /\ fs0 = NoEntries /\ dstate = "unread"
    /\ tomcat = "unread" /\ is_root = FALSE /\ chownable = FALSE
    /\ escalations = <<>>
    /\ use_brand_file = TRUE /\ brand = [arg |-> "unread"]
    /\ loc = NoEntries /\ requests = <<>> /\ dl = NoEntries
    /\ err = [kind |-> "none"] /\ warnings = {} /\ chown_calls = <<>>
    /\ brand_copies = 0 /\ advised = FALSE

----------------------------------------------------------------------------
(* SmartZip.extractall on its own: every generated archive, extracted with
   remove_parent=True into an empty directory *)

ZExtract ==
    /\ zpc = "start"
    /\ \E order \in Listings(zarchive, TRUE) :
          LET r == ExtractAll(Dir(zdest), zarchive, TRUE, order)
          IN  /\ zpc' = IF r.ok THEN "done" ELSE "raised"
              /\ zdest' = IF r.node.k = "dir" THEN r.node.e ELSE zdest
    /\ UNCHANGED <<zarchive, avars, tvars, pvars>>

ZipInit ==
    /\ zpc = "start"
    /\ IsGenerated(zarchive)
    /\ zdest = NoEntries
    /\ tmp_name_tracker = {} /\ minted = <<>>
    /\ tmp_made = 0 /\ tmp_left = {}
    /\ AllocOff /\ PipeOff

ZipNext == ZExtract

SpecZip == ZipInit /\ [][ZipNext]_vars

----------------------------------------------------------------------------
(* The allocator on its own: init on a directory, then get() repeatedly *)

AllocInitDir ==
    /\ apc = "fresh"
    /\ TmpInit(adir)
    /\ apc' = "ready"
    /\ UNCHANGED <<adir, minted, zvars, pvars>>

AllocGet ==
    /\ apc = "ready"
    /\ Len(minted) < MaxGets
    /\ \E name \in TmpPool :
          /\ TmpGet(name)
          /\ minted' = Append(minted, name)
    /\ UNCHANGED <<apc, adir, zvars, pvars>>

AllocInit ==
    /\ apc = "fresh"
    /\ adir \in {S \in SUBSET TmpPool : Cardinality(S) <= MaxListed}
    /\ tmp_name_tracker = {}
    /\ minted = <<>>
    /\ tmp_made = 0 /\ tmp_left = {}
    /\ ZipOff /\ PipeOff

AllocNext == AllocInitDir \/ AllocGet

SpecAlloc == AllocInit /\ [][AllocNext]_vars

----------------------------------------------------------------------------
(* src/ax_get/script.py: constants and helpers *)

DIR_ERROR_CODE == 1
PERMISSION_ERROR_CODE == 2
INVALID_TYPE_ERROR_CODE == 3
INVALID_INPUT == 4
DIR_ALREADY_EXISTS_ERROR_CODE == 5

\* os.name == "posix"
IsPosix == TRUE

\* "axelor-v" + ax_ver_str (+ "-src"), for the version of the run
FolderName == IF is_src THEN "axelor-v1.2.3-src" ELSE "axelor-v1.2.3"

\* The directory a path built from output_dir names.  A "stable" output_dir is
\* an absolute path or os.path.curdir (the default): it names D before and
\* after os.chdir(output_dir).  A "relative" one is any other relative path
\* (such as ".." or "out"): it names D from the starting directory and, once
\* the working directory is D, another directory O.
OutArgs == {"stable", "relative"}
OutputDirNow == IF out_arg = "relative" /\ cwd = "D" THEN "O" ELSE "D"

\* sys.exit(code) and an exception nobody catches (the interpreter then exits
\* with status 1); at records the statement that ended the run
Exit(code) == [kind |-> "SystemExit", code |-> code, at |-> pc]
Raise(kind) == [kind |-> kind, code |-> 1, at |-> pc]
NoErr == [kind |-> "none"]

Fails(e) == pc' = "failed" /\ err' = e
Goes(next) == pc' = next /\ err' = err

\* posix_compat.make_root(): TRUE once the process is privileged; an attempt may
\* succeed or fail
MakeRootResults == IF is_root THEN {TRUE} ELSE {TRUE, FALSE}

\* one make_root() call with result r
MakeRoot(r) ==
    /\ r \in MakeRootResults
    /\ is_root' = r
    /\ escalations' = Append(escalations, [at |-> pc, ok |-> r])

AccessAlways(permitted) == TRUE
\* os.access(path, mode) for a path that exists: what the permission bits grant
\* the invoking user, and everything once the process is privileged
Access(permitted) == permitted \/ is_root

----------------------------------------------------------------------------
(* script.prep *)

\* lines 95-104: the service account, and the escalation a WAR run needs
PrepTomcat ==
    /\ pc = "prep_tomcat"
    /\ IF IsPosix /\ ~is_src
       THEN \E t \in {"present", "absent"} :
              /\ tomcat' = t
              /\ IF t = "present"
                 THEN \E r \in BOOLEAN :
                        /\ MakeRoot(r)
                        /\ chownable' = (chownable \/ r)
                        /\ warnings' = IF r THEN warnings
                                       ELSE warnings \cup {"cannot_chown"}
                 ELSE UNCHANGED <<is_root, escalations, chownable, warnings>>
       ELSE UNCHANGED <<tomcat, is_root, escalations, chownable, warnings>>
    /\ Goes("prep_output_dir")
    /\ UNCHANGED <<args, cwd, fs, dstate, brands, loc, net, chown_calls,
                   brand_copies, advised, tvars, zvars, avars>>

\* lines 110-118: output_dir exists, is readable and writable, becomes the
\* working directory
DStates == {"absent", "notdir", "noaccess", "ok"}
PrepOutputDir ==
    /\ pc = "prep_output_dir"
    /\ \E d \in DStates :
          /\ dstate' = d
          /\ IF d = "absent"
             THEN /\ Fails(Exit(DIR_ERROR_CODE))
                  /\ UNCHANGED <<is_root, escalations, cwd>>
             ELSE IF IsPosix /\ ~Access(d # "noaccess")
             THEN \E r \in BOOLEAN :
                    /\ MakeRoot(r)
                    /\ IF r THEN Goes("prep_brand") /\ cwd' = "D"
                            ELSE Fails(Exit(PERMISSION_ERROR_CODE)) /\ cwd' = cwd
             ELSE IF d = "notdir"
             THEN /\ Fails(Raise("NotADirectoryError"))
                  /\ UNCHANGED <<is_root, escalations, cwd>>
             ELSE /\ Goes("prep_brand") /\ cwd' = "D"
                  /\ UNCHANGED <<is_root, escalations>>
    /\ UNCHANGED <<args, fs, tomcat, chownable, brands, loc, net, outs,
                   tvars, zvars, avars>>

\* what may be at brand_file
BrandKinds ==
    {"absent", "file", "dir", "symlink_file", "symlink_dir", "symlink_dangling"}
Brands ==
    {[arg |-> a, kind |-> k, readable |-> r] :
        a \in {"default", "user"}, k \in BrandKinds, r \in BOOLEAN}
\* os.path.isfile and os.path.exists follow symbolic links
IsFile(b) == b.kind \in {"file", "symlink_file"}
Exists(b) == b.kind \in {"file", "dir", "symlink_file", "symlink_dir"}
IsDefaultBrandNever(b) == FALSE
\* brand_file == os.path.abspath(DEFAULT_BRANDING_FILE)
IsDefaultBrand(b) == b.arg = "default"

\* lines 120-138
PrepBrand ==
    /\ pc = "prep_brand"
    /\ \E b \in {x \in Brands : x.readable \/ x.kind = "file"} :
          /\ brand' = b
          /\ IF ~IsFile(b)
             THEN /\ use_brand_file' = FALSE
                  /\ UNCHANGED <<is_root, escalations, warnings>>
                  /\ IF Exists(b) THEN Fails(Exit(INVALID_TYPE_ERROR_CODE))
                     ELSE IF ~IsDefaultBrand(b) THEN Fails(Exit(INVALID_INPUT))
                     ELSE Goes("prep_tmp_init")
             ELSE /\ use_brand_file' = use_brand_file
                  /\ Goes("prep_tmp_init")
                  /\ IF use_brand_file /\ IsPosix /\ ~Access(b.readable)
                     THEN \E r \in BOOLEAN :
                            /\ MakeRoot(r)
                            /\ warnings' = IF r THEN warnings
                                           ELSE warnings \cup {"cannot_read"}
                     ELSE UNCHANGED <<is_root, escalations, warnings>>
    /\ UNCHANGED <<args, cwd, fs, dstate, tomcat, chownable, loc, net,
                   chown_calls, brand_copies, advised, tvars, zvars, avars>>

\* Temporary names that are nowhere yet are interchangeable: tempfile's proposal
\* is one of the names already in D or in the registry, or the first unused one.
FreshNames == TmpPool \ (DOMAIN fs \cup tmp_name_tracker)
LeastFresh ==
    TmpSeq[CHOOSE i \in 1..Len(TmpSeq) :
              /\ TmpSeq[i] \in FreshNames
              /\ \A j \in 1..(i - 1) : TmpSeq[j] \notin FreshNames]
Candidates == (TmpPool \ FreshNames) \cup {LeastFresh}

\* What os.listdir may return for O.  A name O holds and D does not is never
\* minted and met nowhere else, so it is left out of the listing like any other
\* name of no consequence: what matters is which entries of D the listing has.
OListings == SUBSET (TmpPool \cap DOMAIN fs)

\* line 141: tmp_name.init(output_dir), output_dir read from the working
\* directory of that moment
OStates == {"absent", "notdir", "dir"}
PrepTmpInit ==
    /\ pc = "prep_tmp_init"
    /\ IF OutputDirNow = "D"
       THEN /\ TmpInit(DOMAIN fs)
            /\ Goes(IF is_src THEN "src_name_suite" ELSE "war_name")
       ELSE \E o \in OStates :
              IF o = "dir"
              THEN \E listing \in OListings :
                     /\ TmpInit(listing)
                     /\ Goes(IF is_src THEN "src_name_suite" ELSE "war_name")
              ELSE /\ Fails(Raise(IF o = "absent" THEN "FileNotFoundError"
                                                  ELSE "NotADirectoryError"))
                   /\ UNCHANGED <<tmp_name_tracker, tmp_made, tmp_left>>
    /\ UNCHANGED <<args, cwd, fs, dstate, privs, brands, loc, net, outs,
                   minted, zvars, avars>>

----------------------------------------------------------------------------
(* What the servers may send *)

Aos == "axelor-open-suite"
SrcKids ==
    {Dir("main" :> Dir("webapp" :> Dir("img" :> Dir(NoEntries)))),
     Dir("main" :> Dir(NoEntries))}
ModulesKids ==
    {NoEntries,
     "modules" :> Dir(NoEntries),
     "modules" :> Dir(Aos :> Dir(NoEntries)),
     "modules" :> Dir(Aos :> Dir("x" :> File("old"))),
     "modules" :> File("modules")}
WebContents ==
    {("pom.xml" :> File("pom")) @@ ("src" :> sk) @@ mk :
        sk \in SrcKids, mk \in ModulesKids}
SuiteContents == {"build.gradle" :> File("suite"), NoEntries}
WarContents ==
    {("WEB-INF" :> Dir("classes" :> Dir(NoEntries))) @@ ("index.jsp" :> File("jsp")) @@ ik :
        ik \in {NoEntries, "img" :> Dir(NoEntries)}}

\* the shapes an archive gives its contents c: under one directory "w" with an
\* entry of its own; the same next to a top-level file; the same with a child
\* named like the wrapper; under "w" without a directory entry; not wrapped,
\* every top-level directory with its entry; not wrapped, one directory entry
Wrapped(c) == Archive("w" :> Dir(c), {"w"})
WrappedBeside(c) == Archive(("w" :> Dir(c)) @@ ("README" :> File("top")), {"w"})
WrappedSelf(c) == Archive("w" :> Dir(c @@ ("w" :> File("kid"))), {"w"})
Implicit(c) == Archive("w" :> Dir(c), {})
Bare(c) == Archive(c, DirsOf(c))
OneEntry(c) == Archive(c, {CHOOSE n \in DirsOf(c) : TRUE})
EmptyArchive == Archive(NoEntries, {})

WebArchives ==
    LET c == CHOOSE x \in WebContents : "modules" \notin DOMAIN x
    IN  {Wrapped(x) : x \in WebContents}
            \cup {WrappedBeside(c), WrappedSelf(c), Implicit(c), EmptyArchive}
SuiteArchives ==
    LET c == CHOOSE x \in SuiteContents : x # NoEntries
    IN  {Wrapped(x) : x \in SuiteContents}
            \cup {WrappedBeside(c), WrappedSelf(c), Implicit(c), EmptyArchive}
WarArchives ==
    LET c == CHOOSE x \in WarContents : "img" \in DOMAIN x
    IN  {Bare(x) : x \in WarContents} \cup {Wrapped(x) : x \in WarContents}
            \cup {OneEntry(c), WrappedSelf(c), EmptyArchive}

\* requests.get(url): a network failure raises RequestException; otherwise an
\* answer comes back, whose body (read in full before get returns) is an archive
\* or, as for an HTTP error page, no archive at all
Answers(archives) ==
    {[result |-> "neterr", body |-> BadZip]}
        \cup {[result |-> "http_error", body |-> BadZip]}
        \cup {[result |-> "ok", body |-> a] : a \in archives}

IsAnyFailure(answer) == answer.result # "ok"
\* except requests.exceptions.RequestException
IsRequestException(answer) == answer.result = "neterr"

Requested(url, answer) == Append(requests, [url |-> url, result |-> answer.result])

\* the node at name n of directory entries e
NodeAt(e, n) == IF n \in DOMAIN e THEN e[n] ELSE Absent

----------------------------------------------------------------------------
(* script.action_src *)

\* one tmp_name.get() whose result is kept in the local variable var
MintInto(var) ==
    \E name \in Candidates :
        /\ TmpGet(name)
        /\ minted' = Append(minted, name)
        /\ loc' = Put(loc, var, name)

\* lines 161, 162
SrcNameSuite ==
    /\ pc = "src_name_suite"
    /\ MintInto("opensuite_folder_name")
    /\ Goes("src_name_web")
    /\ UNCHANGED <<args, cwd, fs, dstate, privs, brands, net, outs, zvars, avars>>

SrcNameWeb ==
    /\ pc = "src_name_web"
    /\ MintInto("openwebapp_folder_name")
    /\ Goes("src_check")
    /\ UNCHANGED <<args, cwd, fs, dstate, privs, brands, net, outs, zvars, avars>>

\* os.path.exists(os.path.join(output_dir, folder_name)): in D it is what fs
\* holds; in O it is whatever O holds
FolderExistsResults ==
    IF OutputDirNow = "D" THEN {FolderName \in DOMAIN fs} ELSE {TRUE, FALSE}

CheckFolderLate(at, next) ==
    /\ pc = at
    /\ requests' = Append(requests, [url |-> "early", result |-> "ok"])
    /\ \E exists \in FolderExistsResults :
          IF exists THEN Fails(Exit(DIR_ALREADY_EXISTS_ERROR_CODE)) ELSE Goes(next)
    /\ UNCHANGED <<args, cwd, fs, dstate, privs, brands, loc, dl, outs,
                   tvars, zvars, avars>>

\* lines 183-185 and 264-266
CheckFolder(at, next) ==
    /\ pc = at
    /\ \E exists \in FolderExistsResults :
          IF exists THEN Fails(Exit(DIR_ALREADY_EXISTS_ERROR_CODE)) ELSE Goes(next)
    /\ UNCHANGED <<args, cwd, fs, dstate, privs, brands, loc, net, outs,
                   tvars, zvars, avars>>

SrcCheck == CheckFolder("src_check", "src_web_fetch")

\* lines 200-206 and 215-221: a name for the zip file, the request, the body
\* written to the file and the file closed
SrcFetch(at, url, key, archives, next) ==
    /\ pc = at
    /\ MintInto("zip_name")
    /\ \E answer \in Answers(archives) :
          /\ requests' = Requested(url, answer)
          /\ IF IsRequestException(answer)
             THEN Fails(Raise("RequestException")) /\ UNCHANGED <<fs, dl>>
             ELSE /\ fs' = Put(fs, loc'["zip_name"], File(key))
                  /\ dl' = Put(dl, key, answer.body)
                  /\ Goes(next)
    /\ UNCHANGED <<args, cwd, dstate, privs, brands, outs, zvars, avars>>

RemovedAnyway(e, name, ok) == Without(e, name)
\* os.remove(zip_name) follows the with block of the extraction: it is reached
\* only when extractall did not raise
Removed(e, name, ok) == IF ok THEN Without(e, name) ELSE e

\* lines 209-211 and 223-225: the zip file opened, extracted into the folder
\* name with remove_parent=True, and removed
SrcExtract(at, key, folder, next) ==
    /\ pc = at
    /\ IF ~dl[key].ok
       THEN Fails(Raise("BadZipFile")) /\ fs' = fs
       ELSE \E order \in Listings(dl[key], TRUE) :
              LET r == ExtractAll(NodeAt(fs, loc[folder]), dl[key], TRUE, order)
                  extracted == IF r.node.k = "absent" THEN fs
                               ELSE Put(fs, loc[folder], r.node)
              IN  /\ fs' = Removed(extracted, loc["zip_name"], r.ok)
                  /\ IF r.ok THEN Goes(next) ELSE Fails(Raise("OSError"))
    /\ UNCHANGED <<args, cwd, dstate, privs, brands, loc, net, outs,
                   tvars, zvars, avars>>

SrcWebFetch ==
    SrcFetch("src_web_fetch", "openwebapp_src", "web", WebArchives, "src_web_extract")
SrcWebExtract ==
    SrcExtract("src_web_extract", "web", "openwebapp_folder_name", "src_suite_fetch")
SrcSuiteFetch ==
    SrcFetch("src_suite_fetch", "opensuite_src", "suite", SuiteArchives, "src_suite_extract")
SrcSuiteExtract ==
    SrcExtract("src_suite_extract", "suite", "opensuite_folder_name", "src_rename_web")

\* line 189: os.rename(openwebapp_folder_name, folder_name)
SrcRenameWeb ==
    /\ pc = "src_rename_web"
    /\ LET src == loc["openwebapp_folder_name"]
       IN  IF src \notin DOMAIN fs
           THEN Fails(Raise("FileNotFoundError")) /\ fs' = fs
           ELSE IF RenameAllowed(fs[src], fs, FolderName)
           THEN fs' = Put(Without(fs, src), FolderName, fs[src])
                /\ Goes("src_rename_suite")
           ELSE Fails(Raise("OSError")) /\ fs' = fs
    /\ UNCHANGED <<args, cwd, dstate, privs, brands, loc, net, outs,
                   tvars, zvars, avars>>

\* the directory folder_name/modules, if there is one
ModulesDir == 
    IF FolderName \in DOMAIN fs /\ fs[FolderName].k = "dir"
    THEN NodeAt(fs[FolderName].e, "modules")
    ELSE Absent

\* lines 190, 191: os.rename(opensuite_folder_name, folder_name/modules/axelor-open-suite)
SrcRenameSuite ==
    /\ pc = "src_rename_suite"
    /\ LET src == loc["opensuite_folder_name"]
       IN  IF src \notin DOMAIN fs
           THEN Fails(Raise("FileNotFoundError")) /\ fs' = fs
           ELSE IF ModulesDir.k = "absent"
           THEN Fails(Raise("FileNotFoundError")) /\ fs' = fs
           ELSE IF ModulesDir.k = "file"
           THEN Fails(Raise("NotADirectoryError")) /\ fs' = fs
           ELSE IF RenameAllowed(fs[src], ModulesDir.e, Aos)
           THEN /\ fs' = Put(Without(fs, src), FolderName,
                             Dir(Put(fs[FolderName].e, "modules",
                                     Dir(Put(ModulesDir.e, Aos, fs[src])))))
                /\ Goes("brand")
           ELSE Fails(Raise("OSError")) /\ fs' = fs
    /\ UNCHANGED <<args, cwd, dstate, privs, brands, loc, net, outs,
                   tvars, zvars, avars>>

----------------------------------------------------------------------------
(* Branding and the closing advice, the same in both modes *)

\* brand_dest_path without output_dir, folder_name and the file's name
BrandDestDir == IF is_src THEN <<"src", "main", "webapp", "img">> ELSE <<"img">>

\* the node the path leads to from node, Absent if it leads nowhere
RECURSIVE Walk(_, _)
Walk(node, path) ==
    IF path = <<>> THEN node
    ELSE IF node.k = "dir" /\ Head(path) \in DOMAIN node.e
    THEN Walk(node.e[Head(path)], Tail(path))
    ELSE Absent

\* node with v put under name n in the directory the path leads to
RECURSIVE PutAt(_, _, _, _)
PutAt(node, path, n, v) ==
    IF path = <<>> THEN Dir(Put(node.e, n, v))
    ELSE Dir(Put(node.e, Head(path), PutAt(node.e[Head(path)], Tail(path), n, v)))

\* lines 193, 194 and 289, 290: shutil.copyfile(brand_file, brand_dest_path)
BrandCopy ==
    /\ pc = "brand"
    /\ IF ~use_brand_file
       THEN Goes("output_info") /\ UNCHANGED <<fs, brand_copies>>
       ELSE /\ brand_copies' = brand_copies + 1
            /\ IF ~Access(brand.readable)
               THEN Fails(Raise("PermissionError")) /\ fs' = fs
               ELSE IF \/ OutputDirNow # "D"
                       \/ Walk(NodeAt(fs, FolderName), BrandDestDir).k # "dir"
               THEN Fails(Raise("FileNotFoundError")) /\ fs' = fs
               ELSE /\ fs' = Put(fs, FolderName,
                                 PutAt(fs[FolderName], BrandDestDir,
                                       "brand_file", File("brand")))
                    /\ Goes("output_info")
    /\ UNCHANGED <<args, cwd, dstate, privs, brands, loc, net, warnings,
                   chown_calls, advised, tvars, zvars, avars>>

\* lines 295-344
OutputInfo ==
    /\ pc = "output_info"
    /\ advised' = use_brand_file
    /\ Goes("done")
    /\ UNCHANGED <<args, cwd, fs, dstate, privs, brands, loc, net, warnings,
                   chown_calls, brand_copies, tvars, zvars, avars>>

----------------------------------------------------------------------------
(* script.action_war *)

\* line 251
WarName ==
    /\ pc = "war_name"
    /\ MintInto("war_name")
    /\ Goes("war_check")
    /\ UNCHANGED <<args, cwd, fs, dstate, privs, brands, net, outs, zvars, avars>>

WarCheck == CheckFolder("war_check", "war_primary")

\* line 269: requests.get(opensuite_url) inside try
WarPrimary ==
    /\ pc = "war_primary"
    /\ \E answer \in Answers(WarArchives) :
          /\ requests' = Requested("opensuite_war", answer)
          /\ IF IsRequestException(answer)
             THEN Goes("war_secondary") /\ dl' = dl
             ELSE Goes("war_write") /\ dl' = Put(dl, "war", answer.body)
    /\ UNCHANGED <<args, cwd, fs, dstate, privs, brands, loc, outs,
                   tvars, zvars, avars>>

\* line 271: requests.get(openwebapp_url) inside except
WarSecondary ==
    /\ pc = "war_secondary"
    /\ \E answer \in Answers(WarArchives) :
          /\ requests' = Requested("openwebapp_war", answer)
          /\ IF IsRequestException(answer)
             THEN Fails(Raise("RequestException")) /\ dl' = dl
             ELSE Goes("war_write") /\ dl' = Put(dl, "war", answer.body)
    /\ UNCHANGED <<args, cwd, fs, dstate, privs, brands, loc, outs,
                   tvars, zvars, avars>>

\* lines 272-274
WarWrite ==
    /\ pc = "war_write"
    /\ fs' = Put(fs, loc["war_name"], File("war"))
    /\ Goes("war_extract")
    /\ UNCHANGED <<args, cwd, dstate, privs, brands, loc, net, outs,
                   tvars, zvars, avars>>

\* lines 275-280: the WAR opened; folder_name removed if it is there, made
\* anew, extracted into; the WAR file removed
WarExtract ==
    /\ pc = "war_extract"
    /\ IF ~dl["war"].ok
       THEN Fails(Raise("BadZipFile")) /\ fs' = fs
       ELSE IF NodeAt(fs, FolderName).k = "file"
       THEN Fails(Raise("NotADirectoryError")) /\ fs' = fs
       ELSE \E order \in Listings(dl["war"], TRUE) :
              LET r == ExtractAll(Dir(NoEntries), dl["war"], TRUE, order)
                  extracted == Put(fs, FolderName, r.node)
              IN  /\ fs' = Removed(extracted, loc["war_name"], r.ok)
                  /\ IF r.ok THEN Goes("war_chown") ELSE Fails(Raise("OSError"))
    /\ UNCHANGED <<args, cwd, dstate, privs, brands, loc, net, outs,
                   tvars, zvars, avars>>

\* lines 281-287: posix_compat.chown_r(os.path.join(output_dir, folder_name), ...)
ShouldChownIfRoot == is_root
\* if chownable:
ShouldChown == chownable

\* posix_compat.chown_r(path, uid, gid) gives every entry of the tree at path
\* to the service account.  Called on a path where nothing is (a path in O), it
\* either finds nothing to walk or raises.
ChownRaises == IF OutputDirNow = "D" THEN {FALSE} ELSE {FALSE, TRUE}

WarChown ==
    /\ pc = "war_chown"
    /\ IF ShouldChown
       THEN \E raises \in ChownRaises :
              /\ chown_calls' = Append(chown_calls,
                        [dir |-> OutputDirNow,
                         tree |-> IF OutputDirNow = "D" THEN NodeAt(fs, FolderName)
                                  ELSE Absent])
              /\ IF raises THEN Fails(Raise("FileNotFoundError")) ELSE Goes("brand")
       ELSE chown_calls' = chown_calls /\ Goes("brand")
    /\ UNCHANGED <<args, cwd, fs, dstate, privs, brands, loc, net, warnings,
                   brand_copies, advised, tvars, zvars, avars>>

----------------------------------------------------------------------------
(* The run of the script *)

FolderBefore ==
    {NoEntries,
     FolderName :> File("user"),
     FolderName :> Dir(NoEntries),
     FolderName :> Dir("keep" :> File("user"))}
\* entries of D named like temporary names: regular files
PreBefore == {[n \in {TmpSeq[i] : i \in 1..k} |-> File("user")] : k \in 0..MaxPre}

Init ==
    /\ pc = "prep_tomcat"
    /\ is_src \in BOOLEAN
    /\ out_arg \in OutArgs
    /\ cwd = "start"
    /\ fs \in {f @@ p : f \in FolderBefore, p \in PreBefore}
    /\ fs0 = fs
    /\ dstate = "unread"
    /\ tomcat = "unread" /\ is_root = FALSE /\ chownable = FALSE
    /\ escalations = <<>>
    /\ use_brand_file = TRUE /\ brand = [arg |-> "unread"]
    /\ loc = NoEntries /\ requests = <<>> /\ dl = NoEntries
    /\ err = NoErr /\ warnings = {} /\ chown_calls = <<>>
    /\ brand_copies = 0 /\ advised = FALSE
    /\ tmp_name_tracker = {} /\ minted = <<>>
    /\ tmp_made = 0 /\ tmp_left = {}
    /\ ZipOff /\ AllocOff

Prep == PrepTomcat \/ PrepOutputDir \/ PrepBrand \/ PrepTmpInit
ActionSrc ==
    \/ SrcNameSuite \/ SrcNameWeb \/ SrcCheck
    \/ SrcWebFetch \/ SrcWebExtract \/ SrcSuiteFetch \/ SrcSuiteExtract
    \/ SrcRenameWeb \/ SrcRenameSuite
ActionWar ==
    \/ WarName \/ WarCheck \/ WarPrimary \/ WarSecondary \/ WarWrite
    \/ WarExtract \/ WarChown
Next == Prep \/ ActionSrc \/ ActionWar \/ BrandCopy \/ OutputInfo

Spec == Init /\ [][Next]_vars

----------------------------------------------------------------------------
(* Claims about the allocator, under SpecAlloc *)

\* C1: once tmp_name.init has run on a directory, every name get() returns is
\* different from every entry the directory had when init ran and from every
\* name an earlier get() returned, whatever the entries and however many calls.
C1_Distinct ==
    apc = "ready" =>
        /\ \A i \in 1..Len(minted) : minted[i] \notin adir
        /\ \A i, j \in 1..Len(minted) : i # j => minted[i] # minted[j]

\* several names were returned after init on a directory that had entries
C1_Witness == apc = "ready" /\ Len(minted) >= 2 /\ adir # {}

----------------------------------------------------------------------------
(* Claims about the run of the script, under Spec *)

PrepPcs == {"prep_tomcat", "prep_output_dir", "prep_brand", "prep_tmp_init"}
NamePcs == {"src_name_suite", "src_name_web", "war_name"}
CheckPcs == {"src_check", "war_check"}
\* the statement the run is at, or ended at
At == IF pc = "failed" THEN err.at ELSE pc
ExitedWith(code) == pc = "failed" /\ err.kind = "SystemExit" /\ err.code = code

\* C2 as stated: in both modes, a final folder that is in the destination root
\* before assembly begins makes the run end with exit code 5, and what the
\* folder held is left as it was: nothing merged in, overwritten or removed.
C2_AsStated ==
    FolderName \in DOMAIN fs0 =>
        /\ NodeAt(fs, FolderName) = fs0[FolderName]
        /\ (pc \in {"done", "failed"} /\ At \notin PrepPcs) =>
                ExitedWith(DIR_ALREADY_EXISTS_ERROR_CODE)

\* C3: in both modes the existence check of the final folder comes before any
\* request and any extraction: until the check has passed nothing is
\* requested, downloaded or written, and a run the check ended has issued no
\* request.
C3_CheckFirst ==
    /\ At \in PrepPcs \cup NamePcs \cup CheckPcs =>
            requests = <<>> /\ dl = NoEntries /\ fs = fs0
    /\ ExitedWith(DIR_ALREADY_EXISTS_ERROR_CODE) =>
            At \in CheckPcs /\ requests = <<>> /\ fs = fs0

\* the check found the final folder and ended the run
C3_Witness ==
    /\ ExitedWith(DIR_ALREADY_EXISTS_ERROR_CODE)
    /\ FolderName \in DOMAIN fs
    /\ Len(minted) >= 1

\* C4: in binary mode the second mirror is asked exactly once when the first
\* request failed at the network layer and never otherwise; when both fail the
\* run ends with the network error and nothing has been created.
C4_Fallback ==
    ~is_src =>
        /\ Len(requests) <= 2
        /\ Len(requests) >= 1 => requests[1].url = "opensuite_war"
        /\ Len(requests) = 2 =>
                requests[1].result = "neterr" /\ requests[2].url = "openwebapp_war"
        /\ (Len(requests) >= 1 /\ requests[1].result = "neterr"
                /\ pc # "war_secondary") => Len(requests) = 2
        /\ (Len(requests) = 2 /\ requests[2].result = "neterr") =>
                /\ pc = "failed" /\ err.kind = "RequestException"
                /\ fs = fs0

\* both mirrors failed at the network layer
C4_Witness ==
    /\ ~is_src
    /\ Len(requests) = 2
    /\ requests[1].result = "neterr" /\ requests[2].result = "neterr"
    /\ pc = "failed"

Wraps(a) == a.ok /\ Cardinality(DOMAIN a.top) = 1 /\ a.dirent = DOMAIN a.top
Unwrapped(a) == a.top[CHOOSE n \in DOMAIN a.top : TRUE].e
AfterExtraction == {"src_rename_web", "src_rename_suite", "brand", "output_info", "done"}

\* C6 as stated: a source-mode run that fetched and extracted both archives,
\* each wrapping its contents in one top-level directory, completes with the
\* final folder holding the web archive's unwrapped contents at its top level
\* and modules/axelor-open-suite holding the suite archive's unwrapped
\* contents -- for every content of the web archive.  (Stated for the runs
\* that found no final folder in the destination root.)
C6_AsStated ==
    (/\ is_src /\ At \in AfterExtraction
     /\ FolderName \notin DOMAIN fs0
     /\ Wraps(dl["web"]) /\ Wraps(dl["suite"])
     /\ pc \in {"done", "failed"}) =>
        /\ pc = "done"
        /\ LET f == NodeAt(fs, FolderName)
               web == Unwrapped(dl["web"])
           IN  /\ f.k = "dir"
               /\ DOMAIN web \subseteq DOMAIN f.e
               /\ \A n \in DOMAIN web \ {"src", "modules"} : f.e[n] = web[n]
               /\ Walk(f, <<"modules", Aos>>) = Dir(Unwrapped(dl["suite"]))

\* C7 as stated: prep classifies brand_file, for the default name and for a
\* path the user gave: a regular file enables branding; anything else at the
\* default name disables branding without an error; a user-given path where
\* something other than a regular file is ends the run with exit code 3, one
\* where nothing is with exit code 4, and a user-given symlink ends the run.
C7_AsStated ==
    brand.arg # "unread" =>
        LET stopped == pc = "failed" /\ err.at = "prep_brand"
        IN  /\ brand.kind = "file" => use_brand_file /\ ~stopped
            /\ (brand.arg = "default" /\ brand.kind \notin {"file", "symlink_file"}) =>
                    ~use_brand_file /\ ~stopped
            /\ (brand.arg = "user" /\ brand.kind = "dir") =>
                    ExitedWith(INVALID_TYPE_ERROR_CODE) /\ stopped
            /\ (brand.arg = "user" /\ brand.kind = "absent") =>
                    ExitedWith(INVALID_INPUT) /\ stopped
            /\ (brand.arg = "user" /\ brand.kind \in
                    {"symlink_file", "symlink_dir", "symlink_dangling"}) => stopped

\* C8 as stated: when brand_file is a regular file that cannot be read and the
\* escalation fails, branding is off for the run after the warning, no copy of
\* the file is attempted and the copy does not end the run.
C8_AsStated ==
    "cannot_read" \in warnings =>
        /\ ~use_brand_file
        /\ brand_copies = 0
        /\ ~(pc = "failed" /\ err.at = "brand")

NothingAfterOutputDir ==
    /\ cwd = "start" /\ At = "prep_output_dir"
    /\ brand.arg = "unread" /\ tmp_name_tracker = {} /\ minted = <<>>
    /\ requests = <<>> /\ fs = fs0

\* C9: a destination root that does not exist ends the run with exit code 1;
\* one that is not readable and writable has the escalation attempted and, the
\* escalation failing, ends the run with exit code 2; in both cases the
\* working directory is not changed and no later step runs.
C9_DestRoot ==
    /\ dstate = "absent" => ExitedWith(DIR_ERROR_CODE) /\ NothingAfterOutputDir
    /\ dstate = "noaccess" => escalations # <<>>
    /\ (dstate = "noaccess" /\ ~is_root) =>
            /\ escalations[Len(escalations)] = [at |-> "prep_output_dir", ok |-> FALSE]
            /\ ExitedWith(PERMISSION_ERROR_CODE) /\ NothingAfterOutputDir

\* the destination root was not accessible and the escalation failed
C9_Witness ==
    /\ dstate = "noaccess" /\ ~is_root
    /\ ExitedWith(PERMISSION_ERROR_CODE)

\* C10: chown_r is called only in a binary-mode run where the service account
\* exists and the escalation made at the start of prep succeeded; never in a
\* source-mode run and never after that escalation failed, in which case the
\* warning was printed and the run went on.
C10_ChownOnly ==
    LET at_start == escalations # <<>> /\ escalations[1].at = "prep_tomcat"
    IN  /\ chown_calls # <<>> =>
                ~is_src /\ tomcat = "present" /\ at_start /\ escalations[1].ok
        /\ (at_start /\ ~escalations[1].ok) =>
                /\ chown_calls = <<>>
                /\ "cannot_chown" \in warnings
                /\ ~(pc = "failed" /\ err.at = "prep_tomcat")
        /\ is_src => chown_calls = <<>>

\* chown_r was called
C10_Witness == chown_calls # <<>> /\ pc = "done"

----------------------------------------------------------------------------
(* Claims about SmartZip.extractall, under SpecZip *)

OneParent == Cardinality(zarchive.dirent) = 1
TheParent == CHOOSE n \in zarchive.dirent : TRUE

\* C5 as stated: when extractall(dest, remove_parent=True) has returned, an
\* archive with exactly one depth-one directory entry W leaves in dest exactly
\* W's children and no W, and an archive with none or several leaves its
\* top-level entries unchanged -- for every archive.
C5_AsStated ==
    zpc = "done" =>
        IF OneParent
        THEN /\ DOMAIN zdest = DOMAIN zarchive.top[TheParent].e
             /\ TheParent \notin DOMAIN zdest
        ELSE zdest = zarchive.top

\* C5 amended: when extractall has returned, an archive with exactly one
\* depth-one directory entry W leaves in dest W's children together with the
\* archive's other top-level entries, and no W; an archive with none or several
\* leaves its top-level entries unchanged.
C5_Flatten ==
    zpc = "done" =>
        IF OneParent
        THEN /\ DOMAIN zdest = (DOMAIN zarchive.top \ {TheParent})
                                    \cup DOMAIN zarchive.top[TheParent].e
             /\ TheParent \notin DOMAIN zdest
        ELSE zdest = zarchive.top

\* a wrapper with children was flattened next to a top-level file
C5_Witness ==
    /\ zpc = "done"
    /\ OneParent
    /\ DOMAIN zarchive.top[TheParent].e # {}
    /\ \E n \in DOMAIN zarchive.top : zarchive.top[n].k = "file"
    /\ DOMAIN zdest # DOMAIN zarchive.top[TheParent].e

----------------------------------------------------------------------------
(* Claims about ownership, branding and the order of the run, under Spec *)

\* C11 as stated: when a binary-mode run in which chown_r ran has completed,
\* every entry of the final tree, a branding asset copied into it included,
\* belongs to the service account: chown_r was given the final folder in D and
\* the final tree holds nothing that chown_r did not find there.
C11_AsStated ==
    (pc = "done" /\ ~is_src /\ chown_calls # <<>>) =>
        /\ chown_calls[1].dir = "D"
        /\ NodeAt(fs, FolderName) = chown_calls[1].tree

\* C12: in a binary-mode run with brand_file left at the default name and no
\* such file in the output directory, branding raises no error, no branding
\* asset is copied into the final tree and output_info does not print the
\* logo paragraph.
C12_DefaultAbsent ==
    (~is_src /\ brand.arg = "default" /\ brand.kind = "absent") =>
        /\ ~use_brand_file
        /\ brand_copies = 0
        /\ ~advised
        /\ ~(pc = "failed" /\ err.at \in {"prep_brand", "brand", "output_info"})
        /\ LET img == Walk(NodeAt(fs, FolderName), <<"img">>)
           IN  pc = "done" => ~(img.k = "dir" /\ "brand_file" \in DOMAIN img.e)

\* such a run has completed, its WAR holding an img directory
C12_Witness ==
    /\ ~is_src /\ brand.arg = "default" /\ brand.kind = "absent"
    /\ pc = "done"
    /\ Walk(NodeAt(fs, FolderName), <<"img">>).k = "dir"

\* the pipeline state a statement belongs to, by its place in the stated order
PhaseRank(p) ==
    CASE p \in PrepPcs \cup NamePcs \cup CheckPcs -> 1                \* Validating
      [] p \in {"src_web_fetch", "src_suite_fetch",
                "war_primary", "war_secondary", "war_write"} -> 2      \* Downloading
      [] p \in {"src_web_extract", "src_suite_extract", "war_extract"} -> 3  \* Extracting
      [] p \in {"src_rename_web", "src_rename_suite"} -> 4            \* Assembling
      [] p = "brand" -> 5                                             \* Branding
      [] p = "war_chown" -> 6                                         \* OwnershipRepair
      [] p = "output_info" -> 7                                       \* Reporting
      [] p = "done" -> 8                                              \* Done
      [] OTHER -> 9                                                   \* failure

\* C13 as stated: every run, in either mode, passes through Validating,
\* Downloading, Extracting, Assembling, Branding, OwnershipRepair, Reporting,
\* Done in this order, entering none of them a second time, and a failure
\* leads straight to the terminal failure state: no step of the run goes back
\* to an earlier state of the order.
C13_AsStated == [][PhaseRank(pc') >= PhaseRank(pc)]_vars

\* C14 as stated: in source mode the rename of the web-application directory
\* to the final folder name has completed whenever the rename of the suite
\* directory is attempted, and at that moment the parent of its target, the
\* directory modules of the final folder, exists.
C14_AsStated ==
    pc = "src_rename_suite" =>
        /\ NodeAt(fs, FolderName).k = "dir"
        /\ loc["openwebapp_folder_name"] \notin DOMAIN fs
        /\ ModulesDir.k = "dir"

----------------------------------------------------------------------------
(* Claims about tmp_name.get on its own, under SpecAlloc *)

Returned == minted' # minted
LastMinted == minted'[Len(minted')]

----------------------------------------------------------------------------
(* Claims about validation errors, under Spec *)

\* the run was ended by one of the five sys.exit calls
ValidationError == pc = "failed" /\ err.kind = "SystemExit"

----------------------------------------------------------------------------
(* Claims about name conflicts in SmartZip.extractall, under SpecZip *)

WrapperKids == zarchive.top[TheParent].e
\* children of the wrapper whose name is taken at the destination level
Conflicting == IF OneParent THEN DOMAIN WrapperKids \cap DOMAIN zarchive.top ELSE {}
\* those of them the entry in place cannot give way to: the wrapper itself, a
\* file where a directory comes, a directory where a file comes, a directory
\* that holds something
Blocked ==
    {c \in Conflicting :
        \/ c = TheParent
        \/ WrapperKids[c].k # zarchive.top[c].k
        \/ WrapperKids[c].k = "dir" /\ ~IsEmptyDir(zarchive.top[c])}

\* C16 as stated: when a child of the wrapper has a name already present at
\* the destination level, the rename fails, extractall raises, and the entry
\* that was there is not replaced.
C16_AsStated ==
    (zpc # "start" /\ Conflicting # {}) =>
        /\ zpc = "raised"
        /\ \A c \in Conflicting \ {TheParent} :
                c \in DOMAIN zdest /\ zdest[c] = zarchive.top[c]

\* C16 amended: extractall raises exactly when a child of the wrapper is named
\* like the wrapper or meets an entry of another kind or a directory that is
\* not empty, and such an entry is left as it was; a child that is a file
\* replaces a top-level file of its name, and a child that is a directory an
\* empty top-level directory, without any error.
C16_Conflicts ==
    (zpc # "start" /\ OneParent) =>
        /\ zpc = "raised" <=> Blocked # {}
        /\ \A c \in Blocked \ {TheParent} :
                c \in DOMAIN zdest /\ zdest[c] = zarchive.top[c]
        /\ zpc = "done" =>
                \A c \in Conflicting : c \in DOMAIN zdest /\ zdest[c] = WrapperKids[c]

\* a file of the wrapper has replaced the top-level file of its name
C16_Witness ==
    /\ zpc = "done" /\ OneParent
    /\ \E c \in Conflicting :
          /\ zarchive.top[c] = File("top")
          /\ zdest[c] = File("kid")

----------------------------------------------------------------------------
(* Claims about the steps of one archive, under Spec *)

ExtractPcs == {"src_web_extract", "src_suite_extract", "war_extract"}
\* the local variable that holds the archive file's name, and what the file
\* holds once the download is written
ZipVar == IF is_src THEN "zip_name" ELSE "war_name"
ZipTag ==
    CASE At = "src_web_extract" -> "web"
      [] At = "src_suite_extract" -> "suite"
      [] OTHER -> "war"
\* the downloaded archive files there are in the working directory
ZipsIn == {n \in DOMAIN fs : fs[n] \in {File("web"), File("suite"), File("war")}}

\* C17: for every archive the name is allocated first, the download is written
\* whole and closed before extraction starts, and the file is removed after
\* the extraction has completed and only then: a written archive file is
\* there exactly from the start of its extraction to the successful end of
\* it, under a name get() returned; a failed download has written none and a
\* failed extraction leaves it.
C17_ArchiveSteps ==
    /\ At \in ExtractPcs =>
            /\ ZipsIn = {loc[ZipVar]}
            /\ fs[loc[ZipVar]] = File(ZipTag)
            /\ \E i \in 1..Len(minted) : minted[i] = loc[ZipVar]
            /\ ZipTag \in DOMAIN dl
            /\ requests[Len(requests)].result # "neterr"
    /\ At \notin ExtractPcs => ZipsIn = {}

\* the extraction of the second archive of a source-mode run has failed and
\* its file is still there
C17_Witness ==
    /\ pc = "failed" /\ err.at = "src_suite_extract"
    /\ ZipsIn = {loc["zip_name"]}
    /\ fs[loc["zip_name"]] = File("suite")

----------------------------------------------------------------------------
(* Claims about the destination root, under Spec *)

\* C19 as stated: for every output_dir, absolute or relative, the directory
\* prep changes into, the one tmp_name.init scans, the path the existence
\* check tests and the path the final folder is made at are in the same
\* destination root: after prep the registry holds every entry of the root,
\* the check passes exactly when the root has no final folder, and chown_r
\* is given the final folder of the root.
C19_AsStated ==
    /\ At \notin PrepPcs => DOMAIN fs0 \subseteq tmp_name_tracker
    /\ At \notin PrepPcs \cup NamePcs \cup CheckPcs => FolderName \notin DOMAIN fs0
    /\ ExitedWith(DIR_ALREADY_EXISTS_ERROR_CODE) => FolderName \in DOMAIN fs0
    /\ \A i \in 1..Len(chown_calls) : chown_calls[i].dir = "D"

\* C20 as stated: when a run reaches Done, in either mode, the destination
\* root has the entries it had at the start and exactly one more, the final
\* folder; no temporary file or directory of the run is left in it.
C20_AsStated ==
    pc = "done" =>
        /\ FolderName \notin DOMAIN fs0
        /\ DOMAIN fs = DOMAIN fs0 \cup {FolderName}

====
